---- MODULE Spec2Model ----
(***************************************************************************)
(* Game Export Utility (src/GameExportUtility.py): the export operator     *)
(* OBJECT_OT_ExportOperator.execute, the origin helpers it calls and the   *)
(* option state the panel edits.                                           *)
(*                                                                         *)
(* Geometry is kept along one axis (z): an object's transform is its       *)
(* translation, a mesh is the sequence of its vertices' local coordinates. *)
(* The host operators of bpy.ops are modelled by their documented effect   *)
(* on that state.                                                          *)
(***************************************************************************)
EXTENDS Integers, Sequences, FiniteSets, TLC

\* How many option edits the user makes in the panel before pressing Export.
MaxEdits == 2

\* The objects of the document, in the order context.selected_objects lists them.
ObjOrder == <<"o1", "o2", "o3">>
Objs == {"o1", "o2", "o3"}
NoObj == "none"

\* o3 is parented to o1; o1 and o2 are top-level objects.
Parent(o) == IF o = "o3" THEN "o1" ELSE NoObj

RECURSIVE SeqFilterChildren(_, _)
SeqFilterChildren(seq, p) ==
    IF seq = <<>> THEN <<>>
    ELSE (IF Parent(Head(seq)) = p THEN <<Head(seq)>> ELSE <<>>)
         \o SeqFilterChildren(Tail(seq), p)

\* obj.children
Children(o) == SeqFilterChildren(ObjOrder, o)

VARIABLES
    \* ---- the document ----
    otype,          \* obj.type: "MESH", "CURVE" or "EMPTY"
    oname,          \* obj.name, a sequence of characters, unique per object
    location,       \* obj.location (relative to the parent)
    data,           \* obj.data vertices, local coordinates
    selected,       \* obj.select_get()
    active,         \* context.view_layer.objects.active
    cursor,         \* context.scene.cursor.location
    \* ---- option state ----
    export_types, batch_export, set_file_name, origin_at_bottom, custom_origin,
    selected_empty, \* Scene attribute read by the custom-origin code
    ExportOptions,
    edits,
    \* ---- host side effects ----
    saves,          \* number of save_as_mainfile calls
    dirExists,      \* os.path.exists(mesh_directory_path)
    files,          \* export files on disk
    calls,          \* exporter invocations, in order
    \* ---- execute() ----
    pc, selected_objects,
    original_matrices, original_vertices, original_empty_transforms,
    raised,         \* the exception in flight
    result,         \* what execute returned
    reported,       \* self.report messages
    \* ---- history ----
    pre,            \* the document when Export was pressed
    steps,          \* which origin policies' code ran
    failedIn,       \* the step of the try block that raised
    restored        \* the finally block has run

docVars == <<otype, oname, location, data, selected, active, cursor>>
optVars == <<export_types, batch_export, set_file_name, origin_at_bottom,
             custom_origin, selected_empty, ExportOptions, edits>>
hostVars == <<saves, dirExists, files, calls>>
execVars == <<pc, selected_objects, original_matrices, original_vertices,
              original_empty_transforms, raised, result, reported>>
histVars == <<pre, steps, failedIn, restored>>
vars == <<docVars, optVars, hostVars, execVars, histVars>>

(***************************************************************************)
(* Names and paths                                                         *)
(***************************************************************************)
Alnum == {"a", "b", "e", "x", "z"}

\* bpy.path.clean_name: every character that is not a letter or digit
\* becomes "_".
RECURSIVE clean_name(_)
clean_name(n) ==
    IF n = <<>> THEN <<>>
    ELSE <<IF Head(n) \in Alnum THEN Head(n) ELSE "_">> \o clean_name(Tail(n))

\* str.lower on the format identifiers
lower(fmt) == IF fmt = "FBX" THEN "fbx" ELSE IF fmt = "OBJ" THEN "obj" ELSE fmt

\* os.path.join(mesh_directory_path, base + "." + ext)
FilePath(base, fmt) == [base |-> base, ext |-> lower(fmt)]

(***************************************************************************)
(* Transforms                                                              *)
(***************************************************************************)
RECURSIVE World(_, _)
\* obj.matrix_world.translation
World(loc, o) ==
    IF Parent(o) = NoObj THEN loc[o] ELSE World(loc, Parent(o)) + loc[o]

\* obj.matrix_world = m
SetMatrixWorld(loc, o, m) ==
    [loc EXCEPT ![o] = IF Parent(o) = NoObj THEN m ELSE m - World(loc, Parent(o))]

Shift(vs, d) == [i \in DOMAIN vs |-> vs[i] + d]

\* The lowest corner of obj.bound_box (all zeros for an object without
\* geometry).
RECURSIVE SeqMin(_)
SeqMin(vs) ==
    IF vs = <<>> THEN 0
    ELSE IF Len(vs) = 1 THEN vs[1]
    ELSE LET m == SeqMin(Tail(vs)) IN IF Head(vs) < m THEN Head(vs) ELSE m

\* The part of the document the origin and export code works on.
Doc == [location |-> location, data |-> data, selected |-> selected,
        active |-> active, cursor |-> cursor, raised |-> "none", steps |-> {}]

\* bpy.ops.object.select_all(action='DESELECT')
DeselectAll(s) == [s EXCEPT !.selected = [o \in Objs |-> FALSE]]

\* obj.select_set(b)
SelectSet(s, o, b) == [s EXCEPT !.selected[o] = b]

\* bpy.ops.object.origin_set(type='ORIGIN_CURSOR') on one object: the origin
\* goes to the cursor, the geometry and the children stay where they are.
OriginSetOne(s, o) ==
    IF otype[o] = "EMPTY" THEN s
    ELSE LET d == s.cursor - World(s.location, o) IN
         [s EXCEPT !.location = [c \in Objs |->
                        IF c = o THEN s.location[c] + d
                        ELSE IF Parent(c) = o THEN s.location[c] - d
                        ELSE s.location[c]],
                   !.data[o] = Shift(s.data[o], 0 - d)]

RECURSIVE OriginSetSeq(_, _)
OriginSetSeq(s, seq) ==
    IF seq = <<>> THEN s
    ELSE OriginSetSeq(IF s.selected[Head(seq)] THEN OriginSetOne(s, Head(seq)) ELSE s,
                      Tail(seq))

\* bpy.ops.object.origin_set(type='ORIGIN_CURSOR', center='MEDIAN'): acts on
\* every selected object.
OriginSetCursor(s) == OriginSetSeq(s, ObjOrder)

(***************************************************************************)
(* Origin Manipulator                                                      *)
(***************************************************************************)
\* set_origin_at_bottom(obj).  transform_apply(rotation, scale) leaves
\* translations alone; the vertices are moved by minus the bounding box's
\* lowest point, the object's location is not touched.
set_origin_at_bottom(s, obj) ==
    LET centroid == SeqMin(s.data[obj]) IN
    [s EXCEPT !.data[obj] = Shift(s.data[obj], 0 - centroid),
              !.steps = @ \cup {"AtBottomCenter"}]

\* The generator of process_obj: the first child of type EMPTY that passes
\* the name filter.  The filter reads context.scene.selected_empty for every
\* EMPTY child it looks at; the read raises AttributeError when the Scene
\* type has no such attribute.
RECURSIVE FindCustomEmpty(_)
FindCustomEmpty(kids) ==
    IF kids = <<>> THEN [obj |-> NoObj, err |-> "none"]
    ELSE LET child == Head(kids) IN
         IF otype[child] # "EMPTY" THEN FindCustomEmpty(Tail(kids))
         ELSE IF ~selected_empty.registered
              THEN [obj |-> NoObj, err |-> "AttributeError"]
         ELSE IF selected_empty.value = <<>> \/ oname[child] = selected_empty.value
              THEN [obj |-> child, err |-> "none"]
         ELSE FindCustomEmpty(Tail(kids))

\* process_obj with the cursor put at the marker's own location instead of
\* its world translation.
process_obj_LocalCursor(s, obj) ==
    IF otype[obj] # "MESH" THEN s
    ELSE LET f == FindCustomEmpty(Children(obj)) IN
         IF f.err # "none" THEN [s EXCEPT !.raised = f.err]
         ELSE IF f.obj = NoObj THEN s
         ELSE LET s1 == [s EXCEPT !.cursor = s.location[f.obj]]
                  s2 == SelectSet(DeselectAll(s1), obj, TRUE)
                  s3 == [s2 EXCEPT !.active = obj]
              IN  OriginSetCursor(s3)

\* set_origin_to_custom.process_obj(obj, context)
process_obj(s, obj) ==
    IF otype[obj] # "MESH" THEN s
    ELSE LET f == FindCustomEmpty(Children(obj)) IN
         IF f.err # "none" THEN [s EXCEPT !.raised = f.err]
         ELSE IF f.obj = NoObj THEN s
         ELSE LET s1 == [s EXCEPT !.cursor = World(s.location, f.obj)]
                  s2 == SelectSet(DeselectAll(s1), obj, TRUE)
                  s3 == [s2 EXCEPT !.active = obj]
              IN  OriginSetCursor(s3)

\* for obj in selected_objects: process_obj(obj, context)
RECURSIVE ProcessLoop(_, _)
ProcessLoop(s, objs) ==
    IF objs = <<>> \/ s.raised # "none" THEN s
    ELSE ProcessLoop(process_obj(s, Head(objs)), Tail(objs))

\* set_origin_to_custom(selected_objects, context), called with a list: the
\* loop over the objects is written twice.
set_origin_to_custom(s, objs) ==
    ProcessLoop(ProcessLoop([s EXCEPT !.steps = @ \cup {"CustomEmptyAnchor"}], objs),
                objs)

\* The body of the default branch of execute for one object.
CursorAtObject(s, obj) ==
    LET s1 == [s EXCEPT !.cursor = s.location[obj],
                        !.steps = @ \cup {"CursorAtObject"}]
        s2 == SelectSet(DeselectAll(s1), obj, TRUE)
        s3 == [s2 EXCEPT !.active = obj]
    IN  OriginSetCursor(s3)

RECURSIVE BottomLoop(_, _)
BottomLoop(s, objs) ==
    IF objs = <<>> THEN s
    ELSE BottomLoop(set_origin_at_bottom(s, Head(objs)), Tail(objs))

RECURSIVE CursorLoop(_, _)
CursorLoop(s, objs) ==
    IF objs = <<>> THEN s
    ELSE CursorLoop(CursorAtObject(s, Head(objs)), Tail(objs))

\* The order of the tests as manipulate_origin has it: origin at bottom first.
OriginPolicy_BottomFirst ==
    IF origin_at_bottom THEN "AtBottomCenter"
    ELSE IF custom_origin THEN "CustomEmptyAnchor"
    ELSE "CursorAtObject"

\* The if / elif / else of execute's origin handling.
OriginPolicy ==
    IF custom_origin THEN "CustomEmptyAnchor"
    ELSE IF origin_at_bottom THEN "AtBottomCenter"
    ELSE "CursorAtObject"

\* execute: --- ORIGIN HANDLING ---
OriginHandling(s, objs) ==
    CASE OriginPolicy = "CustomEmptyAnchor" -> set_origin_to_custom(s, objs)
      [] OriginPolicy = "AtBottomCenter" -> BottomLoop(s, objs)
      [] OTHER -> CursorLoop(s, objs)

\* obj.location = (0, 0, 0) for every exported object
RECURSIVE MoveToZero(_, _)
MoveToZero(loc, objs) ==
    IF objs = <<>> THEN loc
    ELSE MoveToZero([loc EXCEPT ![Head(objs)] = 0], Tail(objs))

(***************************************************************************)
(* Host exporters                                                          *)
(***************************************************************************)
\* The keyword arguments the two host export operators know.
KnownKeywords(op) ==
    IF op = "export_scene.fbx"
    THEN {"filepath", "use_selection", "use_mesh_modifiers", "use_triangles",
          "colors_type"}
    ELSE {"filepath", "export_selected_objects", "apply_modifiers",
          "export_triangulated_mesh"}

Keys(kwargs) == {kwargs[i][1] : i \in DOMAIN kwargs}

\* The state an export works on: the document, the files on disk, the
\* exporter invocations so far.
ExportState(s) == [s |-> s, files |-> files, calls |-> calls]

\* One call of a host export operator with the current selection.  A keyword
\* the operator does not know is a TypeError before the operator runs; the
\* operator itself fails when this is the failAt-th call reaching it.
HostExport(e, op, path, kwargs, failAt) ==
    LET reached == Len(SelectSeq(e.calls, LAMBDA c : c.outcome # "TypeError")) + 1
        outcome == IF ~(Keys(kwargs) \subseteq KnownKeywords(op)) THEN "TypeError"
                   ELSE IF reached = failAt THEN "RuntimeError"
                   ELSE "ok"
        call == [op |-> op, kwargs |-> kwargs, outcome |-> outcome,
                 exported |-> {o \in Objs : e.s.selected[o]}]
    IN  [e EXCEPT !.calls = Append(@, call),
                  !.files = IF outcome = "ok" THEN @ \cup {path} ELSE @,
                  !.s.raised = IF outcome = "ok" THEN @ ELSE outcome]

FbxKwargs(path, use_modifiers, use_triangulation, use_vertex_colors) ==
    << <<"filepath", path>>, <<"use_selection", TRUE>>,
       <<"use_mesh_modifiers", use_modifiers>>,
       <<"use_triangles", use_triangulation>>,
       <<"colors_type", use_vertex_colors>> >>

\* The keyword arguments of the OBJ call in export_objects.
ObjKwargsBatch(path) ==
    << <<"filepath", path>>, <<"export_selected_objects", TRUE>>,
       <<"apply_modifiers", TRUE>>, <<"export_triangulated_mesh", TRUE>> >>

\* The keyword arguments of the OBJ call in execute's single export.
ObjKwargsSingle(path) ==
    << <<"filepath", path>>, <<"export_selected_objects", TRUE>>,
       <<"apply_modifiers", TRUE>>, <<"export_trianguled_mesh", TRUE>> >>

\* if export_format == 'FBX': ... elif export_format == 'OBJ': ...
ExportCall(e, fmt, path, objKwargs, mods, tris, cols, failAt) ==
    IF fmt = "FBX"
    THEN HostExport(e, "export_scene.fbx", path, FbxKwargs(path, mods, tris, cols), failAt)
    ELSE IF fmt = "OBJ"
    THEN HostExport(e, "wm.obj_export", path, objKwargs, failAt)
    ELSE e

\* export_objects: one export per object
RECURSIVE export_objects(_, _, _, _, _, _, _)
export_objects(e, objs, fmt, mods, tris, cols, failAt) ==
    IF objs = <<>> \/ e.s.raised # "none" THEN e
    ELSE LET selected_obj == Head(objs)
             s1 == [e.s EXCEPT !.active = selected_obj]
             s2 == SelectSet(DeselectAll(s1), selected_obj, TRUE)
             path == FilePath(clean_name(oname[selected_obj]), fmt)
         IN  export_objects(
                 ExportCall([e EXCEPT !.s = s2], fmt, path, ObjKwargsBatch(path),
                            mods, tris, cols, failAt),
                 Tail(objs), fmt, mods, tris, cols, failAt)

\* The single export without its selection loop.
SelectEach_None(s, objs) == s

\* for obj in selected_objects: obj.select_set(True)
RECURSIVE SelectEach(_, _)
SelectEach(s, objs) ==
    IF objs = <<>> THEN s ELSE SelectEach(SelectSet(s, Head(objs), TRUE), Tail(objs))

\* execute's single export: the whole selection into one file, named by
\* set_file_name or, when that is empty, by the active object.
single_export(e, objs, fmt, mods, tris, cols, failAt) ==
    LET s1 == SelectEach(DeselectAll(e.s), objs)
        active_object == s1.active
    IN  IF set_file_name = <<>> /\ active_object = NoObj
        THEN [e EXCEPT !.s = [s1 EXCEPT !.raised = "AttributeError"]]
        ELSE LET file_base_name ==
                     clean_name(IF set_file_name # <<>> THEN set_file_name
                                ELSE oname[active_object])
                 path == FilePath(file_base_name, fmt)
             IN  ExportCall([e EXCEPT !.s = s1], fmt, path, ObjKwargsSingle(path),
                            mods, tris, cols, failAt)

\* execute: --- EXPORT SETTINGS & PROCESS ---
ExportProcess(e, objs, failAt) ==
    LET use_modifiers == ExportOptions.include_modifiers_fbx
        use_triangulation == ExportOptions.use_triangles_fbx
        use_vertex_colors == ExportOptions.use_vertex_colors_fbx
    IN  IF batch_export
        THEN export_objects(e, objs, export_types, use_modifiers, use_triangulation,
                            use_vertex_colors, failAt)
        ELSE single_export(e, objs, export_types, use_modifiers, use_triangulation,
                           use_vertex_colors, failAt)

(***************************************************************************)
(* Snapshot and restore                                                    *)
(***************************************************************************)
\* The selection taken as it is, empties included.
FilterSelection_KeepEmpties == SelectSeq(ObjOrder, LAMBDA o : selected[o])

\* selected_objects = [obj for obj in context.selected_objects if obj.type != 'EMPTY']
FilterSelection ==
    SelectSeq(ObjOrder, LAMBDA o : selected[o] /\ otype[o] # "EMPTY")

SeqToSet(seq) == {seq[i] : i \in DOMAIN seq}

\* The objects execute stores a world matrix and the vertices of.
SnapshotObjects(objs) == {o \in SeqToSet(objs) : otype[o] = "MESH"}

\* The child empties execute stores a world matrix of.
SnapshotEmpties(objs) ==
    {c \in Objs : otype[c] = "EMPTY" /\ Parent(c) \in SeqToSet(objs)}

\* bpy.data.objects.get(name)
ObjectsGet(n) ==
    IF \E o \in Objs : oname[o] = n THEN CHOOSE o \in Objs : oname[o] = n ELSE NoObj

\* finally: restore the vertices and the world matrix of the objects
RECURSIVE RestoreObjects(_, _)
RestoreObjects(s, objs) ==
    IF objs = <<>> THEN s
    ELSE LET obj == Head(objs)
             s1 == IF otype[obj] = "MESH" /\ oname[obj] \in DOMAIN original_vertices
                   THEN [s EXCEPT !.data[obj] = original_vertices[oname[obj]]]
                   ELSE s
             s2 == IF oname[obj] \in DOMAIN original_matrices
                   THEN [s1 EXCEPT !.location =
                            SetMatrixWorld(@, obj, original_matrices[oname[obj]])]
                   ELSE s1
         IN  RestoreObjects(s2, Tail(objs))

\* finally: restore the world matrix of the stored empties
RECURSIVE RestoreEmpties(_, _)
RestoreEmpties(s, objs) ==
    IF objs = <<>> THEN s
    ELSE LET o == Head(objs)
             hit == oname[o] \in DOMAIN original_empty_transforms
                    /\ ObjectsGet(oname[o]) = o
         IN  RestoreEmpties(
                 IF hit THEN [s EXCEPT !.location =
                                SetMatrixWorld(@, o, original_empty_transforms[oname[o]])]
                 ELSE s,
                 Tail(objs))

\* The finally block of execute, ending with snap_cursor_to_center.
RestoreState(s) ==
    [RestoreEmpties(RestoreObjects(s, selected_objects), ObjOrder) EXCEPT !.cursor = 0]

(***************************************************************************)
(* The document and the option state when the add-on is registered         *)
(***************************************************************************)
Init ==
    /\ otype \in {t \in [Objs -> {"MESH", "CURVE", "EMPTY"}] :
                    /\ t["o1"] \in {"MESH", "CURVE"}
                    /\ t["o2"] = "MESH"
                    /\ t["o3"] = "EMPTY"}
    /\ oname \in {n \in [Objs -> {<<"a", ".">>, <<"a", "_">>, <<"b">>, <<"e">>}] :
                    /\ n["o1"] = <<"a", ".">>
                    /\ n["o2"] \in {<<"a", "_">>, <<"b">>}
                    /\ n["o3"] = <<"e">>}
    /\ location = [o \in Objs |-> IF o = "o1" THEN 1 ELSE 2]
    /\ data = [o \in Objs |-> IF o = "o1" THEN <<1, 3>>
                              ELSE IF o = "o2" THEN <<0, 2>> ELSE <<>>]
    /\ selected \in [Objs -> BOOLEAN]
    /\ active \in Objs \cup {NoObj}
    /\ cursor = 2
    /\ export_types = "FBX"
    /\ batch_export = FALSE
    /\ set_file_name = <<>>
    /\ origin_at_bottom = FALSE
    /\ custom_origin = FALSE
    \* The add-on defines no selected_empty property; the attribute exists
    \* only when something else has attached it to the Scene type.
    /\ selected_empty \in {[registered |-> FALSE, value |-> <<>>],
                           [registered |-> TRUE, value |-> <<>>],
                           [registered |-> TRUE, value |-> <<"e">>],
                           [registered |-> TRUE, value |-> <<"z">>]}
    /\ ExportOptions = [include_modifiers_fbx |-> FALSE,
                        use_triangles_fbx |-> FALSE,
                        use_vertex_colors_fbx |-> "NONE",
                        include_modifiers_obj |-> FALSE,
                        use_triangles_obj |-> FALSE]
    /\ edits = 0
    /\ saves = 0
    /\ dirExists = FALSE
    /\ files = {}
    /\ calls = <<>>
    /\ pc = "idle"
    /\ selected_objects = <<>>
    /\ original_matrices = <<>>
    /\ original_vertices = <<>>
    /\ original_empty_transforms = <<>>
    /\ raised = "none"
    /\ result = "none"
    /\ reported = <<>>
    /\ pre = [location |-> location, data |-> data, selected |-> selected,
              active |-> active, cursor |-> cursor]
    /\ steps = {}
    /\ failedIn = "none"
    /\ restored = FALSE

(***************************************************************************)
(* View3D_PT_Export_Utility.draw: the controls the user can edit           *)
(***************************************************************************)
CanEdit == pc = "idle" /\ edits < MaxEdits

Edited ==
    /\ edits' = edits + 1
    /\ UNCHANGED <<docVars, hostVars, execVars, histVars, selected_empty>>

SetExportTypes ==
    /\ CanEdit
    /\ \E v \in {"FBX", "OBJ"} : v # export_types /\ export_types' = v
    /\ Edited
    /\ UNCHANGED <<batch_export, set_file_name, origin_at_bottom, custom_origin,
                   ExportOptions>>

SetBatchExport ==
    /\ CanEdit
    /\ batch_export' = ~batch_export
    /\ Edited
    /\ UNCHANGED <<export_types, set_file_name, origin_at_bottom, custom_origin,
                   ExportOptions>>

\* The file name field is drawn only when batch export is off.
SetFileName ==
    /\ CanEdit
    /\ ~batch_export
    /\ \E v \in {<<>>, <<"x", ".">>} : v # set_file_name /\ set_file_name' = v
    /\ Edited
    /\ UNCHANGED <<export_types, batch_export, origin_at_bottom, custom_origin,
                   ExportOptions>>

SetOriginAtBottom ==
    /\ CanEdit
    /\ origin_at_bottom' = ~origin_at_bottom
    /\ Edited
    /\ UNCHANGED <<export_types, batch_export, set_file_name, custom_origin,
                   ExportOptions>>

SetCustomOrigin ==
    /\ CanEdit
    /\ custom_origin' = ~custom_origin
    /\ Edited
    /\ UNCHANGED <<export_types, batch_export, set_file_name, origin_at_bottom,
                   ExportOptions>>

\* The FBX options are drawn when the format is FBX.
SetFbxOption ==
    /\ CanEdit
    /\ export_types = "FBX"
    /\ \/ ExportOptions' = [ExportOptions EXCEPT !.include_modifiers_fbx = ~@]
       \/ ExportOptions' = [ExportOptions EXCEPT !.use_triangles_fbx = ~@]
       \/ \E v \in {"NONE", "SRGB", "LINEAR"} :
            /\ v # ExportOptions.use_vertex_colors_fbx
            /\ ExportOptions' = [ExportOptions EXCEPT !.use_vertex_colors_fbx = v]
    /\ Edited
    /\ UNCHANGED <<export_types, batch_export, set_file_name, origin_at_bottom,
                   custom_origin>>

\* The OBJ options are drawn when the format is OBJ.
SetObjOption ==
    /\ CanEdit
    /\ export_types = "OBJ"
    /\ \/ ExportOptions' = [ExportOptions EXCEPT !.include_modifiers_obj = ~@]
       \/ ExportOptions' = [ExportOptions EXCEPT !.use_triangles_obj = ~@]
    /\ Edited
    /\ UNCHANGED <<export_types, batch_export, set_file_name, origin_at_bottom,
                   custom_origin>>

(***************************************************************************)
(* OBJECT_OT_ExportOperator.execute                                        *)
(***************************************************************************)
\* Save the document, filter the selection; cancel when nothing is left.
SaveAndFilter ==
    /\ pc = "idle"
    /\ saves' = saves + 1
    /\ selected_objects' = FilterSelection
    /\ pre' = [location |-> location, data |-> data, selected |-> selected,
               active |-> active, cursor |-> cursor]
    /\ IF FilterSelection = <<>>
       THEN /\ reported' = Append(reported, "No valid mesh objects to export.")
            /\ result' = "CANCELLED"
            /\ pc' = "done"
       ELSE /\ pc' = "snapshot"
            /\ UNCHANGED <<reported, result>>
    /\ UNCHANGED <<docVars, optVars, dirExists, files, calls, original_matrices,
                   original_vertices, original_empty_transforms, raised, steps,
                   failedIn, restored>>

\* --- STORE ORIGINAL STATE ---
Snapshot ==
    /\ pc = "snapshot"
    /\ original_matrices' =
         [n \in {oname[o] : o \in SnapshotObjects(selected_objects)} |->
             World(location, ObjectsGet(n))]
    /\ original_vertices' =
         [n \in {oname[o] : o \in SnapshotObjects(selected_objects)} |->
             data[ObjectsGet(n)]]
    /\ original_empty_transforms' =
         [n \in {oname[o] : o \in SnapshotEmpties(selected_objects)} |->
             World(location, ObjectsGet(n))]
    /\ pc' = "origin"
    /\ UNCHANGED <<docVars, optVars, hostVars, selected_objects, raised, result,
                   reported, histVars>>

\* A try block without its finally: the exception leaves execute at once.
AfterTry_NoFinally(exc, normal) == IF exc = "none" THEN normal ELSE "return"

\* try: ... finally: where control goes when a step of the try block ends,
\* normally or with an exception in flight.
AfterTry(exc, normal) == IF exc = "none" THEN normal ELSE "restore"

\* Writes the document part of a state record back.
SetDoc(s) ==
    /\ location' = s.location
    /\ data' = s.data
    /\ selected' = s.selected
    /\ active' = s.active
    /\ cursor' = s.cursor
    /\ raised' = s.raised
    /\ UNCHANGED <<otype, oname>>

\* try: --- ORIGIN HANDLING ---
OriginAdjust ==
    /\ pc = "origin"
    /\ LET s == OriginHandling(Doc, selected_objects) IN
         /\ SetDoc(s)
         /\ steps' = s.steps
         /\ pc' = AfterTry(s.raised, "move")
         /\ failedIn' = IF s.raised = "none" THEN failedIn ELSE "origin"
    /\ UNCHANGED <<optVars, hostVars, selected_objects, original_matrices,
                   original_vertices, original_empty_transforms, result, reported,
                   pre, restored>>

\* --- MOVE OBJECTS TO (0, 0, 0) FOR EXPORT ---, then the output directory:
\* os.makedirs creates it when it is missing, or raises OSError.
MoveAndMakeDirs ==
    /\ pc = "move"
    /\ location' = MoveToZero(location, selected_objects)
    /\ \E made \in BOOLEAN :
         /\ dirExists' = (dirExists \/ made)
         /\ raised' = IF dirExists' THEN raised ELSE "OSError"
         /\ failedIn' = IF dirExists' THEN failedIn ELSE "move"
         /\ pc' = AfterTry(raised', "export")
    /\ UNCHANGED <<otype, oname, data, selected, active, cursor, optVars, saves,
                   files, calls, selected_objects, original_matrices,
                   original_vertices, original_empty_transforms, result,
                   reported, pre, steps, restored>>

\* The batch or the single export; any one of the host calls may fail.
Export ==
    /\ pc = "export"
    /\ \E failAt \in 0..(IF batch_export THEN Len(selected_objects) ELSE 1) :
         LET e == ExportProcess(ExportState(Doc), selected_objects, failAt) IN
           /\ SetDoc(e.s)
           /\ files' = e.files
           /\ calls' = e.calls
           /\ pc' = AfterTry(e.s.raised, "restore")
           /\ failedIn' = IF e.s.raised = "none" THEN failedIn ELSE "export"
    /\ UNCHANGED <<optVars, saves, dirExists, selected_objects, original_matrices,
                   original_vertices, original_empty_transforms, result, reported,
                   pre, steps, restored>>

\* finally: --- RESTORE ORIGINAL STATE ---
Restore ==
    /\ pc = "restore"
    /\ LET s == RestoreState([Doc EXCEPT !.raised = raised]) IN SetDoc(s)
    /\ restored' = TRUE
    /\ pc' = "return"
    /\ UNCHANGED <<optVars, hostVars, selected_objects, original_matrices,
                   original_vertices, original_empty_transforms, result, reported,
                   pre, steps, failedIn>>

\* return {'FINISHED'}, unless an exception is on its way out
Return ==
    /\ pc = "return"
    /\ result' = IF raised = "none" THEN "FINISHED" ELSE "EXCEPTION"
    /\ pc' = "done"
    /\ UNCHANGED <<docVars, optVars, hostVars, selected_objects, original_matrices,
                   original_vertices, original_empty_transforms, raised, reported,
                   histVars>>

Next ==
    \/ SetExportTypes
    \/ SetBatchExport
    \/ SetFileName
    \/ SetOriginAtBottom
    \/ SetCustomOrigin
    \/ SetFbxOption
    \/ SetObjOption
    \/ SaveAndFilter
    \/ Snapshot
    \/ OriginAdjust
    \/ MoveAndMakeDirs
    \/ Export
    \/ Restore
    \/ Return

Spec == Init /\ [][Next]_vars

(***************************************************************************)
(* Properties                                                              *)
(***************************************************************************)
\* The document as it was when Export was pressed.
PreDoc == [location |-> pre.location, data |-> pre.data, selected |-> pre.selected,
           active |-> pre.active, cursor |-> pre.cursor, raised |-> "none",
           steps |-> {"CustomEmptyAnchor"}]

\* The origin handling has just run (or raised); nothing after it has.
JustAfterOrigin == pc = "move" \/ (pc = "restore" /\ failedIn = "origin")

PassedFilter == pc \notin {"idle", "snapshot"} /\ result # "CANCELLED"

\* C1: once the restore phase has run, every object has the world transform
\* and the vertex positions it had before the export started.
C1_RestoredIdentical ==
    restored =>
        \A o \in Objs : /\ World(location, o) = World(pre.location, o)
                        /\ data[o] = pre.data[o]

\* C2: once the snapshot is taken the restore phase runs on every path: the
\* operator never returns, and no exception leaves it, before the restore
\* (vertices, transforms, cursor recentred) has run; with an exception in
\* flight the operator does not report FINISHED.
C2_RestoreOnEveryPath ==
    /\ (PassedFilter /\ pc \in {"return", "done"}) => (restored /\ cursor = 0)
    /\ (PassedFilter /\ pc = "done" /\ raised # "none") => result = "EXCEPTION"
    /\ result = "FINISHED" => (raised = "none" /\ restored)
    /\ (PassedFilter /\ raised # "none") =>
          (failedIn \in {"origin", "move", "export"} /\ pc \in {"restore", "return", "done"})

C2_Witness ==
    /\ pc = "done" /\ raised = "RuntimeError" /\ failedIn = "export"
    /\ restored /\ cursor = 0 /\ result = "EXCEPTION"

\* C3: a selection with no non-empty object is cancelled with the error
\* reported, and apart from the document save nothing is changed.
C3_CancelChangesNothing ==
    /\ (pc # "idle" /\ ~\E o \in Objs : pre.selected[o] /\ otype[o] # "EMPTY")
          => (pc = "done" /\ result = "CANCELLED")
    /\ result = "CANCELLED" =>
          /\ reported = <<"No valid mesh objects to export.">>
          /\ saves = 1
          /\ calls = <<>> /\ files = {} /\ ~dirExists
          /\ location = pre.location /\ data = pre.data
          /\ selected = pre.selected /\ active = pre.active
          /\ cursor = pre.cursor
          /\ ~restored /\ steps = {} /\ raised = "none"

C3_Witness ==
    result = "CANCELLED" /\ pre.selected["o3"] /\ ~pre.selected["o1"]

\* C4: with no failure of the host exporter or of the directory creation and
\* no error in the origin handling or the naming, a batch export of N objects invokes the exporter
\* N times and leaves N files, one per object under its sanitized name; a
\* non-batch export leaves exactly one file; for FBX and for OBJ.
C4_FileCount ==
    (PassedFilter /\ pc = "done" /\ raised \notin {"RuntimeError", "OSError", "AttributeError"}) =>
        IF batch_export
        THEN /\ Len(calls) = Len(selected_objects)
             /\ Cardinality(files) = Len(selected_objects)
             /\ \A o \in SeqToSet(selected_objects) :
                   FilePath(clean_name(oname[o]), export_types) \in files
        ELSE Cardinality(files) = 1

\* C5 as stated: when the export finishes, every targeted object is
\* deselected and the cursor is at the world origin.
C5_AllDeselected ==
    result = "FINISHED" =>
        /\ \A o \in SeqToSet(selected_objects) : ~selected[o]
        /\ cursor = 0

\* C5 amended: when the operator returns FINISHED the cursor is at the world
\* origin; after a non-batch export exactly the targeted objects are
\* selected, after a batch export exactly the last targeted object.
C5_SelectionAfterExport ==
    result = "FINISHED" =>
        /\ cursor = 0
        /\ {o \in Objs : selected[o]} =
              IF batch_export THEN {selected_objects[Len(selected_objects)]}
              ELSE SeqToSet(selected_objects)

C5_Witness ==
    /\ result = "FINISHED" /\ batch_export /\ Len(selected_objects) = 2
    /\ pre.selected["o3"] /\ ~selected["o1"] /\ selected["o2"]

\* C6: a finished non-batch export with an empty file name leaves one file
\* named after the object that was active when Export was pressed; with a
\* file name set, one file named after the sanitized file name.
C6_NamedAfterActive ==
    (result = "FINISHED" /\ ~batch_export) =>
        IF set_file_name # <<>>
        THEN files = {FilePath(clean_name(set_file_name), export_types)}
        ELSE pre.active # NoObj =>
               files = {FilePath(clean_name(oname[pre.active]), export_types)}

\* C7: the code of exactly one origin policy runs in an export, chosen with
\* precedence custom origin, then origin at bottom, then cursor at object.
C7_OnePolicy ==
    (PassedFilter /\ pc # "origin") =>
        /\ custom_origin => steps = {"CustomEmptyAnchor"}
        /\ (~custom_origin /\ origin_at_bottom) => steps = {"AtBottomCenter"}
        /\ (~custom_origin /\ ~origin_at_bottom) => steps = {"CursorAtObject"}

C7_Witness ==
    pc = "done" /\ custom_origin /\ origin_at_bottom /\ result = "FINISHED"
    /\ steps = {"CustomEmptyAnchor"}

\* A child marker of obj that passes the optional name filter.
MatchingMarkers(obj) ==
    {c \in Objs : /\ Parent(c) = obj /\ otype[c] = "EMPTY"
                  /\ (~selected_empty.registered \/ selected_empty.value = <<>>
                      \/ oname[c] = selected_empty.value)}

TargetMeshes == {o \in SeqToSet(selected_objects) : otype[o] = "MESH"}

\* C8: under the custom-origin policy no error is raised; a target mesh with
\* no matching child marker keeps its origin, and when no target has one the
\* cursor, the selection and the active object are unchanged; a target mesh
\* with a matching marker gets its origin at the marker's world location,
\* where the cursor is.
C8_CustomOrigin ==
    (JustAfterOrigin /\ custom_origin) =>
        /\ raised = "none"
        /\ \A o \in TargetMeshes :
              IF MatchingMarkers(o) = {}
              THEN /\ World(location, o) = World(pre.location, o)
                   /\ data[o] = pre.data[o]
              ELSE \E m \in MatchingMarkers(o) :
                      /\ World(location, o) = World(pre.location, m)
                      /\ cursor = World(pre.location, m)
        /\ (\A o \in TargetMeshes : MatchingMarkers(o) = {}) =>
              (cursor = pre.cursor /\ selected = pre.selected /\ active = pre.active)

\* C9: every FBX invocation carries the current FBX options; every OBJ
\* invocation carries modifier application and triangulation switched on.
C9_ExporterOptions ==
    \A i \in DOMAIN calls :
        LET c == calls[i] IN
        IF c.op = "export_scene.fbx"
        THEN /\ <<"use_mesh_modifiers", ExportOptions.include_modifiers_fbx>>
                    \in SeqToSet(c.kwargs)
             /\ <<"use_triangles", ExportOptions.use_triangles_fbx>>
                    \in SeqToSet(c.kwargs)
             /\ <<"colors_type", ExportOptions.use_vertex_colors_fbx>>
                    \in SeqToSet(c.kwargs)
        ELSE /\ <<"apply_modifiers", TRUE>> \in SeqToSet(c.kwargs)
             /\ <<"export_triangulated_mesh", TRUE>> \in SeqToSet(c.kwargs)

\* C10: the document after set_origin_to_custom, which runs the loop over
\* the objects twice, is the document after running that loop once.
C10_SecondLoopNoEffect ==
    (JustAfterOrigin /\ custom_origin) =>
        LET once == ProcessLoop(PreDoc, selected_objects) IN
          /\ location = once.location /\ data = once.data
          /\ cursor = once.cursor /\ selected = once.selected
          /\ active = once.active /\ raised = once.raised

C10_Witness ==
    /\ JustAfterOrigin /\ custom_origin /\ raised = "none"
    /\ "o1" \in TargetMeshes
    /\ World(location, "o1") = World(pre.location, "o3")
    /\ World(location, "o1") # World(pre.location, "o1")

====
